---- MODULE Spec2Model ----
(***************************************************************************)
(* A model of the polling file watcher (package watcher).                  *)
(*                                                                         *)
(* The watcher keeps a set of watch roots (names), the snapshot of the     *)
(* previous cycle (files: directory -> base name -> FileInfo) and a        *)
(* running flag, all meant to be guarded by the mutex mu.  Start runs the  *)
(* control loop: list the roots, let a worker goroutine compare the        *)
(* listing with the previous snapshot and pipe events to the loop, which   *)
(* forwards them to the Event channel, then commit the listing and sleep.  *)
(* Paths are sequences of characters so that filepath.Dir, filepath.Base,  *)
(* filepath.Join and the formatting of a rename's path are modelled by     *)
(* what they compute.                                                      *)
(***************************************************************************)
EXTENDS Integers, Sequences, FiniteSets, TLC

(***************************************************************************)
(* Bounds of the model.                                                    *)
(***************************************************************************)
\* filesystem changes made while the model runs
MaxFsOps == 2
\* Remove/RemoveRecursive/Ignore calls made
MaxEdits == 2
\* Add/AddRecursive calls made before Start
MaxAdds == 2
\* the largest argument given to SetMaxEvents
MaxCap == 2

(***************************************************************************)
(* Program constants.                                                      *)
(***************************************************************************)
\* time.Nanosecond, the shortest duration Start accepts
Nanosecond == 1
\* time.Millisecond, the shortest duration Start2 accepts
Millisecond == 1000000

(***************************************************************************)
(* Paths.                                                                  *)
(***************************************************************************)
Sep == "/"

\* index of the last separator of an absolute path
LastSep(p) == CHOOSE i \in 1..Len(p) : p[i] = Sep /\ \A j \in (i+1)..Len(p) : p[j] # Sep

\* filepath.Dir of a clean absolute path
Dir(p) == IF LastSep(p) = 1 THEN <<Sep>> ELSE SubSeq(p, 1, LastSep(p) - 1)

\* filepath.Base of a clean absolute path
Base(p) == SubSeq(p, LastSep(p) + 1, Len(p))

\* filepath.Join(dir, file)
Join(dir, file) == IF dir = <<Sep>> THEN dir \o file ELSE dir \o <<Sep>> \o file

\* dir of filepath.Split(p): the path up to and including its last separator
SplitDir(p) == SubSeq(p, 1, LastSep(p))

\* strings.HasPrefix(str, prefix)
HasPrefix(str, prefix) == Len(str) >= Len(prefix) /\ SubSeq(str, 1, Len(prefix)) = prefix

\* fmt.Sprintf("%s -> %s", from, to)
RenamePath(from, to) == from \o <<" ", "-", ">", " ">> \o to

\* the watched directory and the files that may live in it
TopDir == <<Sep>>
WatchDir == <<Sep, "d">>
FileBases == {<<"a">>, <<"b">>, <<"c">>}
FilePaths == {Join(WatchDir, b) : b \in FileBases}
AllPaths == {WatchDir} \cup FilePaths

(***************************************************************************)
(* The filesystem: existing path -> os.FileInfo.                           *)
(***************************************************************************)
FileInfo(nm, sz, md, mt, isdir) ==
    [name |-> nm, size |-> sz, mode |-> md, modTime |-> mt, isDir |-> isdir]

NewFile(p) == FileInfo(Base(p), 1, 1, 1, FALSE)

InitFs ==
    [p \in {WatchDir, Join(WatchDir, <<"a">>), Join(WatchDir, <<"b">>)} |->
        IF p = WatchDir THEN FileInfo(Base(p), 1, 1, 1, TRUE) ELSE NewFile(p)]

\* a watched directory with a subdirectory: /d/a, /d/s and /d/s/a
SubDir == Join(WatchDir, <<"s">>)
TreeFs ==
    [p \in {WatchDir, Join(WatchDir, <<"a">>), SubDir, Join(SubDir, <<"a">>)} |->
        IF p \in {WatchDir, SubDir} THEN FileInfo(Base(p), 1, 1, 1, TRUE) ELSE NewFile(p)]

\* a watched directory with a file, a hidden file and a subdirectory:
\* /d/a, /d/.h, /d/s and /d/s/a
ApiFs ==
    [p \in {WatchDir, Join(WatchDir, <<"a">>), Join(WatchDir, <<".", "h">>), SubDir, Join(SubDir, <<"a">>)} |->
        IF p \in {WatchDir, SubDir} THEN FileInfo(Base(p), 1, 1, 1, TRUE) ELSE NewFile(p)]

Exists(f, p) == p \in DOMAIN f

\* ioutil.ReadDir(dir): the entries directly under dir
Children(f, dir) == {p \in DOMAIN f : p # dir /\ Dir(p) = dir}

\* a map without keys, and map update
EmptyMap == <<>>
Put(m, k, v) == [x \in DOMAIN m \cup {k} |-> IF x = k THEN v ELSE m[x]]
Drop(m, ks) == [x \in DOMAIN m \ ks |-> m[x]]
\* for k, v := range b { a[k] = v }
Merge(a, b) == [x \in DOMAIN a \cup DOMAIN b |-> IF x \in DOMAIN b THEN b[x] ELSE a[x]]

(***************************************************************************)
(* Listing (Watcher.list, Watcher.listRecursive).  A listing maps a        *)
(* directory to the map base name -> FileInfo of its entries.  The result  *)
(* carries err = TRUE when os.Stat or filepath.Walk reports that the root  *)
(* does not exist.                                                         *)
(***************************************************************************)
\* strings.HasPrefix(info.Name(), ".")
IsHidden(base) == Len(base) > 0 /\ base[1] = "."

Skipped(p, ign, hid) == p \in ign \/ (hid /\ IsHidden(Base(p)))

list(name, f, ign, hid) ==
    IF name \in ign THEN [err |-> FALSE, list |-> EmptyMap]
    ELSE IF ~Exists(f, name) THEN [err |-> TRUE, list |-> EmptyMap]
    ELSE IF ~f[name].isDir
    THEN [err |-> FALSE,
          list |-> Put(EmptyMap, Dir(name), Put(EmptyMap, Base(name), f[name]))]
    ELSE [err |-> FALSE,
          list |-> Put(Put(EmptyMap, Dir(name), EmptyMap), name,
                       [b \in {Base(p) : p \in {q \in Children(f, name) : ~Skipped(q, ign, hid)}}
                            |-> f[Join(name, b)]])]

\* p is root or lies beneath it
IsUnder(p, root) ==
    \/ p = root
    \/ /\ Len(p) > Len(root) + 1
       /\ SubSeq(p, 1, Len(root)) = root
       /\ p[Len(root) + 1] = Sep

\* the paths filepath.Walk hands to the callback and the callback keeps
Walked(name, f, ign, hid) ==
    {p \in DOMAIN f :
        /\ IsUnder(p, name)
        /\ \A q \in DOMAIN f : (IsUnder(q, name) /\ IsUnder(p, q)) => ~Skipped(q, ign, hid)}

listRecursive(name, f, ign, hid) ==
    IF ~Exists(f, name) THEN [err |-> TRUE, list |-> EmptyMap]
    ELSE LET kept == Walked(name, f, ign, hid)
             dirs == {Dir(name)} \cup {p \in kept : f[p].isDir}
         IN [err |-> FALSE,
             list |-> [d \in dirs |->
                          [b \in {Base(p) : p \in {q \in kept : Dir(q) = d}} |-> f[Join(d, b)]]]]

listRoot(name, recursive, f, ign, hid) ==
    IF recursive THEN listRecursive(name, f, ign, hid) ELSE list(name, f, ign, hid)

\* every order in which a range over a map with key set S may visit the keys
Orders(S) == {sq \in [1..Cardinality(S) -> S] : \A x \in S : \E i \in DOMAIN sq : sq[i] = x}

\* retrieveFileList's loop over p.names in the order ord, from position i on:
\* ok = FALSE when a root's listing failed (the loop then sends on p.Error)
RECURSIVE ListAll(_, _, _, _, _, _, _)
ListAll(ord, i, acc, nms, f, ign, hid) ==
    IF i > Len(ord) THEN [ok |-> TRUE, list |-> acc]
    ELSE LET r == listRoot(ord[i], nms[ord[i]], f, ign, hid)
         IN IF r.err THEN [ok |-> FALSE, list |-> acc]
            ELSE ListAll(ord, i + 1, Merge(acc, r.list), nms, f, ign, hid)

\* the flat set of paths of a listing
PathsOf(fl) == UNION {{Join(d, b) : b \in DOMAIN fl[d]} : d \in DOMAIN fl}

(***************************************************************************)
(* Events and the per-directory checks of the worker goroutine.  prev is   *)
(* p.files, cur is the listing of the directory dir in this cycle.  Each   *)
(* check yields work items; an item becomes an Event when it is sent.      *)
(***************************************************************************)
Event(op, path, info) == [Op |-> op, Path |-> path, FileInfo |-> info]

Item(op, from, to, info) == [op |-> op, from |-> from, to |-> to, info |-> info]

\* p.files[dir]: indexing a missing directory yields the nil map
FilesOf(prev, dir) == IF dir \in DOMAIN prev THEN prev[dir] ELSE EmptyMap

writeEvts(dir, cur, prev) ==
    {Item("Write", file, file, FilesOf(prev, dir)[file]) :
        file \in {x \in DOMAIN FilesOf(prev, dir) :
                     x \in DOMAIN cur /\ cur[x].modTime # FilesOf(prev, dir)[x].modTime}}

\* the mode is compared only when the modification time is unchanged
chmodEvtsUnlessWritten(dir, cur, prev) ==
    {Item("Chmod", file, file, FilesOf(prev, dir)[file]) :
        file \in {x \in DOMAIN FilesOf(prev, dir) :
                     /\ x \in DOMAIN cur
                     /\ cur[x].modTime = FilesOf(prev, dir)[x].modTime
                     /\ cur[x].mode # FilesOf(prev, dir)[x].mode}}

chmodEvts(dir, cur, prev) ==
    {Item("Chmod", file, file, FilesOf(prev, dir)[file]) :
        file \in {x \in DOMAIN FilesOf(prev, dir) :
                     x \in DOMAIN cur /\ cur[x].mode # FilesOf(prev, dir)[x].mode}}

\* the entries created in dir, with their FileInfo
createEvts(dir, cur, prev) ==
    [file \in {x \in DOMAIN cur : x \notin DOMAIN FilesOf(prev, dir)} |-> cur[file]]

\* the entries removed from dir, with the FileInfo they had
removeEvts(dir, cur, prev) ==
    [file \in {x \in DOMAIN FilesOf(prev, dir) : x \notin DOMAIN cur} |-> FilesOf(prev, dir)[file]]

SameMeta(add, remove) ==
    /\ add.modTime = remove.modTime
    /\ add.size = remove.size
    /\ add.mode = remove.mode
    /\ add.isDir = remove.isDir

\* every (created, removed) pair of dir with matching metadata
renameEvts(dir, created, removed) ==
    {Item("Rename", pr[2], pr[1], created[pr[1]]) :
        pr \in {x \in (DOMAIN created) \X (DOMAIN removed) :
                   SameMeta(created[x[1]], removed[x[2]])}}

\* for cr, info := range creates
createItems(created) == {Item("Create", cr, cr, created[cr]) : cr \in DOMAIN created}

\* for rm, info := range removes
removeItems(removed) == {Item("Remove", rm, rm, removed[rm]) : rm \in DOMAIN removed}

\* the Event the worker sends for an item of directory dir
EventOf(dir, it) ==
    IF it.op = "Rename"
    THEN Event("Rename", RenamePath(Join(dir, it.from), Join(dir, it.to)), it.info)
    ELSE Event(it.op, Join(dir, it.from), it.info)

\* the created file is not taken out of creates when its rename is sent
CreatesKept(it, created) == created

\* creates and removes left after the rename it was sent:
\* delete(removes, rename.from); delete(creates, rename.to)
CreatesAfterSend(it, created) == IF it.op = "Rename" THEN Drop(created, {it.to}) ELSE created
RemovesAfterSend(it, removed) == IF it.op = "Rename" THEN Drop(removed, {it.from}) ELSE removed

\* the events one uninterrupted cycle sends for directory dir
DirEvents(dir, cur, prev) ==
    LET cr == createEvts(dir, cur, prev)
        rm == removeEvts(dir, cur, prev)
        rn == renameEvts(dir, cr, rm)
    IN {EventOf(dir, it) :
          it \in writeEvts(dir, cur, prev) \cup chmodEvts(dir, cur, prev) \cup rn
                 \cup createItems(Drop(cr, {r.to : r \in rn}))
                 \cup removeItems(Drop(rm, {r.from : r \in rn}))}

\* the events of one uninterrupted cycle: for dir, files := range fileList
CycleEvents(fl, prev) == UNION {DirEvents(d, fl[d], prev) : d \in DOMAIN fl}

(***************************************************************************)
(* State.                                                                  *)
(***************************************************************************)
\* the goroutines that call Start and Close
Starters == {"s1", "s2"}
Closers == {"c1"}
\* the goroutine of a further Close call, and the goroutines that call Wait
LateClosers == {"c2"}
AllClosers == Closers \cup LateClosers
Waiters == {"w1", "w2"}

VARIABLES
    fs,             \* the filesystem
    fsOps,          \* filesystem changes made so far
    names,          \* p.names: root -> recursive or not
    files,          \* p.files: the previous snapshot
    ignored,        \* p.ignored
    ignoreHidden,   \* p.ignoreHidden
    maxEvents,      \* p.maxEvents
    running,        \* p.running
    mu,             \* p.mu: "free" or the goroutine that holds it
    adds,           \* Add/AddRecursive calls made so far
    pc,             \* where each Start call stands
    ret,            \* what each Start call returned
    dArg,           \* the duration each Start call was given
    startNames,     \* the roots registered when each Start call was made
    fileList,       \* Start's local fileList of the current cycle
    numEvents,      \* Start's local numEvents
    cancelled,      \* cancel of the current cycle is closed (and evt is nil)
    pending,        \* the event Start is sending on p.Event
    delivered,      \* the events received from p.Event in the current cycle
    lastCut,        \* the cycle committed last was cut short by maxEvents
    wk,             \* the worker goroutine of the current cycle
    closePc,        \* where each Close call stands
    evConsumer,     \* "on" while something receives from p.Event
    closedConsumer, \* whether anything receives from p.Closed
    scan,           \* the ScanNow call: where it stands, its result, whether a cycle ran for it
    wg,             \* p.wg: the counter of the WaitGroup
    waitPc,         \* where each Wait call stands
    start2,         \* the Start2 call: where it stands and what it returned
    trig,           \* the TriggerEvent call: where it stands, its event, what was received
    view,           \* the map a WatchedFiles call returned, as its caller sees it
    edits           \* the Remove/RemoveRecursive/Ignore calls made so far, in order

vars == <<fs, fsOps, names, files, ignored, ignoreHidden, maxEvents, running, mu, adds,
          pc, ret, dArg, startNames, fileList, numEvents, cancelled, pending, delivered,
          lastCut, wk, closePc, evConsumer, closedConsumer, scan,
          wg, waitPc, start2, trig, view, edits>>

watcherVars == <<names, files, ignored, ignoreHidden, maxEvents, running, mu, adds>>
fsVars == <<fs, fsOps>>
cycleVars == <<fileList, numEvents, cancelled, pending, delivered, lastCut, wk>>
callVars == <<ret, dArg, startNames>>
apiVars == <<wg, waitPc, start2, trig, edits>>
envVars == <<evConsumer, closedConsumer, scan, apiVars, view>>

NoEvent == Event("None", <<>>, FileInfo(<<>>, 0, 0, 0, FALSE))

NoWorker ==
    [pc |-> "none", dirs |-> {}, dir |-> <<>>, todo |-> {}, creates |-> EmptyMap, removes |-> EmptyMap]

\* the values of pc at which a Start call is inside its polling loop
LoopPcs == {"retrieve", "sendError", "relock", "select", "sendEvent", "commit", "sleep"}

\* no ScanNow call has been made
NoScan == [pc |-> "idle", ret |-> "none", ran |-> FALSE]

\* Start2 has not been called
NoStart2 == [pc |-> "idle", ret |-> "none"]

\* the nil os.FileInfo
NilInfo == FileInfo(<<>>, 0, 0, 0, FALSE)

\* TriggerEvent has not been called: op and file are its arguments, ev is the
\* event it sends, got are the events received from it
NoTrigger == [pc |-> "idle", op |-> "None", file |-> NilInfo, ev |-> NoEvent, got |-> <<>>]

\* WatchedFiles has not been called.  A returned map is the map p.files
\* refers to (live) until p.files is assigned another map.
NoView == [held |-> FALSE, live |-> FALSE, val |-> EmptyMap, mutated |-> FALSE]

\* what the holder of a returned map sees once p.files was changed in place to m
Seen(v, m) == IF v.live THEN [v EXCEPT !.val = m] ELSE v

\* what the holder is left with once p.files was assigned another map
Detached(v) == [v EXCEPT !.live = FALSE]

\* the phases in which the worker sends what is left in todo
SendPhases == {"write", "chmod", "rename", "create", "remove"}

\* New(), on the filesystem f
InitWith(f) ==
    /\ fs = f
    /\ fsOps = 0
    /\ names = EmptyMap
    /\ files = EmptyMap
    /\ ignored = {}
    /\ ignoreHidden = FALSE
    /\ maxEvents = 0
    /\ running = FALSE
    /\ mu = "free"
    /\ adds = 0
    /\ pc = [s \in Starters |-> "idle"]
    /\ ret = [s \in Starters |-> "none"]
    /\ dArg = [s \in Starters |-> Nanosecond]
    /\ startNames = [s \in Starters |-> {}]
    /\ fileList = [s \in Starters |-> EmptyMap]
    /\ numEvents = [s \in Starters |-> 0]
    /\ cancelled = [s \in Starters |-> FALSE]
    /\ pending = [s \in Starters |-> NoEvent]
    /\ delivered = [s \in Starters |-> <<>>]
    /\ lastCut = [s \in Starters |-> FALSE]
    /\ wk = [s \in Starters |-> NoWorker]
    /\ closePc = [c \in AllClosers |-> "idle"]
    /\ evConsumer = "on"
    /\ closedConsumer = TRUE
    /\ scan = NoScan
    /\ wg = 1
    /\ waitPc = [w \in Waiters |-> "idle"]
    /\ start2 = NoStart2
    /\ trig = NoTrigger
    /\ view = NoView
    /\ edits = <<>>

Init == InitWith(InitFs)

(***************************************************************************)
(* The filesystem changes under the watcher.  The watcher reads it only in *)
(* Add, AddRecursive and retrieveFileList.  The changes begin when Start   *)
(* has been called, and a change is taken at a moment when the loop is     *)
(* about to list: made at any other moment of the cycle, it is seen by     *)
(* the same next listing.                                                  *)
(***************************************************************************)
BeforeRead == \E s \in Starters : pc[s] = "retrieve"

FsCreate(p) ==
    /\ fsOps < MaxFsOps
    /\ BeforeRead
    /\ ~Exists(fs, p)
    /\ fs' = Put(fs, p, NewFile(p))
    /\ fsOps' = fsOps + 1
    /\ UNCHANGED <<watcherVars, pc, callVars, cycleVars, closePc, envVars>>

FsRemove(p) ==
    /\ fsOps < MaxFsOps
    /\ BeforeRead
    /\ Exists(fs, p)
    /\ fs' = Drop(fs, {p})
    /\ fsOps' = fsOps + 1
    /\ UNCHANGED <<watcherVars, pc, callVars, cycleVars, closePc, envVars>>

\* os.RemoveAll(p): p goes with everything beneath it
FsRemoveAll(p) ==
    /\ fsOps < MaxFsOps
    /\ BeforeRead
    /\ Exists(fs, p)
    /\ fs' = Drop(fs, {q \in DOMAIN fs : IsUnder(q, p)})
    /\ fsOps' = fsOps + 1
    /\ UNCHANGED <<watcherVars, pc, callVars, cycleVars, closePc, envVars>>

FsWrite(p) ==
    /\ fsOps < MaxFsOps
    /\ BeforeRead
    /\ Exists(fs, p)
    /\ fs' = [fs EXCEPT ![p].modTime = 3 - @]
    /\ fsOps' = fsOps + 1
    /\ UNCHANGED <<watcherVars, pc, callVars, cycleVars, closePc, envVars>>

\* ioutil.WriteFile followed by os.Chtimes back to the old time: the size
\* changes, the modification time does not
FsResize(p) ==
    /\ fsOps < MaxFsOps
    /\ BeforeRead
    /\ Exists(fs, p)
    /\ ~fs[p].isDir
    /\ fs' = [fs EXCEPT ![p].size = 3 - @]
    /\ fsOps' = fsOps + 1
    /\ UNCHANGED <<watcherVars, pc, callVars, cycleVars, closePc, envVars>>

FsChmod(p) ==
    /\ fsOps < MaxFsOps
    /\ BeforeRead
    /\ Exists(fs, p)
    /\ fs' = [fs EXCEPT ![p].mode = 3 - @]
    /\ fsOps' = fsOps + 1
    /\ UNCHANGED <<watcherVars, pc, callVars, cycleVars, closePc, envVars>>

FsRename(p, q) ==
    /\ fsOps < MaxFsOps
    /\ BeforeRead
    /\ Exists(fs, p)
    /\ ~Exists(fs, q)
    /\ fs' = Put(Drop(fs, {p}), q, [fs[p] EXCEPT !.name = Base(q)])
    /\ fsOps' = fsOps + 1
    /\ UNCHANGED <<watcherVars, pc, callVars, cycleVars, closePc, envVars>>

(***************************************************************************)
(* Calls made before Start: Add, AddRecursive, SetMaxEvents.               *)
(***************************************************************************)
\* no Start and no Close call has been made yet
Setup == (\A s \in Starters : pc[s] = "idle") /\ (\A c \in AllClosers : closePc[c] = "idle")

\* the calls made: Add(name) as <<name, FALSE>>, AddRecursive(name) as <<name, TRUE>>
AddCalls == {<<WatchDir, FALSE>>, <<WatchDir, TRUE>>,
             <<Join(WatchDir, <<"a">>), FALSE>>, <<Join(WatchDir, <<"b">>), FALSE>>}

\* p.files after Add (recursive = FALSE) or AddRecursive (recursive = TRUE)
AddFiles(name, recursive, prev, f, ign, hid) ==
    IF ~Exists(f, name) THEN prev
    ELSE IF hid /\ IsHidden(f[name].name) THEN prev
    ELSE LET r == listRoot(name, recursive, f, ign, hid)
         IN IF r.err THEN prev ELSE Merge(prev, r.list)

Add(name, recursive) ==
    /\ Setup
    /\ adds < MaxAdds
    /\ mu = "free"
    /\ names' = Put(names, name, recursive)
    /\ files' = AddFiles(name, recursive, files, fs, ignored, ignoreHidden)
    /\ adds' = adds + 1
    /\ view' = Seen(view, files')
    /\ UNCHANGED <<fsVars, ignored, ignoreHidden, maxEvents, running, mu,
                   pc, callVars, cycleVars, closePc, evConsumer, closedConsumer, scan, apiVars>>

(***************************************************************************)
(* Remove, RemoveRecursive, Ignore and IgnoreHiddenFiles, called before    *)
(* Start.                                                                  *)
(***************************************************************************)
\* the names Remove and RemoveRecursive are called with, and the paths given
\* to Ignore
RootNames == {c[1] : c \in AddCalls}
IgnorePaths == {WatchDir, Join(WatchDir, <<"a">>), SubDir}

\* p.files after Remove(name): the entry is looked up under the directory
\* part of filepath.Split(name)
RemoveFiles(name, prev) ==
    LET dir == SplitDir(name)
        file == Base(name)
    IN IF file \notin DOMAIN FilesOf(prev, dir) THEN prev
       ELSE IF ~FilesOf(prev, dir)[file].isDir
       THEN [prev EXCEPT ![dir] = Drop(@, {file})]
       ELSE Drop(prev, {dir})

\* p.files after RemoveRecursive(name)
RemoveRecursiveFiles(name, prev) ==
    LET dir == SplitDir(name)
        file == Base(name)
    IN IF file \notin DOMAIN FilesOf(prev, dir) THEN prev
       ELSE IF ~FilesOf(prev, dir)[file].isDir
       THEN [prev EXCEPT ![dir] = Drop(@, {file})]
       ELSE Drop(prev, {d \in DOMAIN prev : HasPrefix(d, name)})

Remove(name) ==
    /\ Setup
    /\ Len(edits) < MaxEdits
    /\ mu = "free"
    /\ names' = Drop(names, {name})
    /\ files' = RemoveFiles(name, files)
    /\ edits' = Append(edits, <<"Remove", name>>)
    /\ view' = Seen(view, files')
    /\ UNCHANGED <<fsVars, ignored, ignoreHidden, maxEvents, running, mu, adds,
                   pc, callVars, cycleVars, closePc, evConsumer, closedConsumer, scan,
                   wg, waitPc, start2, trig>>

RemoveRecursive(name) ==
    /\ Setup
    /\ Len(edits) < MaxEdits
    /\ mu = "free"
    /\ names' = Drop(names, {name})
    /\ files' = RemoveRecursiveFiles(name, files)
    /\ edits' = Append(edits, <<"RemoveRecursive", name>>)
    /\ view' = Seen(view, files')
    /\ UNCHANGED <<fsVars, ignored, ignoreHidden, maxEvents, running, mu, adds,
                   pc, callVars, cycleVars, closePc, evConsumer, closedConsumer, scan,
                   wg, waitPc, start2, trig>>

\* Ignore(path): RemoveRecursive(path), then the path joins p.ignored
Ignore(path) ==
    /\ Setup
    /\ Len(edits) < MaxEdits
    /\ mu = "free"
    /\ names' = Drop(names, {path})
    /\ files' = RemoveRecursiveFiles(path, files)
    /\ ignored' = ignored \cup {path}
    /\ edits' = Append(edits, <<"Ignore", path>>)
    /\ view' = Seen(view, files')
    /\ UNCHANGED <<fsVars, ignoreHidden, maxEvents, running, mu, adds,
                   pc, callVars, cycleVars, closePc, evConsumer, closedConsumer, scan,
                   wg, waitPc, start2, trig>>

\* IgnoreHiddenFiles(ignore), called on the fresh watcher
IgnoreHiddenFiles(ignore) ==
    /\ Setup
    /\ adds = 0
    /\ edits = <<>>
    /\ mu = "free"
    /\ ignoreHidden # ignore
    /\ ignoreHidden' = ignore
    /\ UNCHANGED <<fsVars, names, files, ignored, maxEvents, running, mu, adds,
                   pc, callVars, cycleVars, closePc, envVars>>

SetMaxEvents(amount) ==
    /\ Setup
    /\ mu = "free"
    /\ maxEvents' = amount
    /\ UNCHANGED <<fsVars, names, files, ignored, ignoreHidden, running, mu, adds,
                   pc, callVars, cycleVars, closePc, envVars>>

(***************************************************************************)
(* Start: the checks on entry.                                             *)
(***************************************************************************)
\* the durations Start is called with
Durations == (Nanosecond - 2)..Nanosecond

\* Start as src/watcher.go:291 has it: an interval of zero or less is
\* replaced by the default interval and the watcher starts
StartOutcomeDefaulted(d, isRunning, nms) ==
    IF d > 0 /\ d < Nanosecond THEN "ErrDurationTooShort"
    ELSE IF isRunning THEN "ErrWatcherRunning"
    ELSE "run"

\* Start as src/watcher.go:295 has it: no registered root is an error
StartOutcomeNothingAdded(d, isRunning, nms) ==
    IF d < Nanosecond THEN "ErrDurationTooShort"
    ELSE IF isRunning THEN "ErrWatcherRunning"
    ELSE IF nms = {} THEN "ErrNothingAdded"
    ELSE "run"

\* what the entry of Start decides; nms are the registered roots, which
\* the entry of Start does not look at
StartOutcome(d, isRunning, nms) ==
    IF d < Nanosecond THEN "ErrDurationTooShort"
    ELSE IF isRunning THEN "ErrWatcherRunning"
    ELSE "run"

StartCall(s, d) ==
    /\ pc[s] = "idle"
    /\ d < Nanosecond \/ mu = "free"
    /\ dArg' = [dArg EXCEPT ![s] = d]
    /\ startNames' = [startNames EXCEPT ![s] = DOMAIN names]
    /\ LET out == StartOutcome(d, running, DOMAIN names)
       IN IF out = "run"
          THEN /\ running' = TRUE
               /\ pc' = [pc EXCEPT ![s] = "retrieve"]
               /\ ret' = ret
          ELSE /\ running' = running
               /\ pc' = [pc EXCEPT ![s] = "returned"]
               /\ ret' = [ret EXCEPT ![s] = out]
    /\ UNCHANGED <<fsVars, names, files, ignored, ignoreHidden, maxEvents, mu, adds,
                   cycleVars, closePc, envVars>>

(***************************************************************************)
(* Start: one cycle of the polling loop.                                   *)
(***************************************************************************)
\* retrieveFileList locks p.mu and lists every root.  When a root has
\* vanished it sends on p.Error with the lock still held.
RetrieveFileList(s) ==
    /\ pc[s] = "retrieve"
    /\ mu = "free"
    /\ \E ord \in Orders(DOMAIN names) :
         LET r == ListAll(ord, 1, EmptyMap, names, fs, ignored, ignoreHidden)
         IN IF r.ok
            THEN /\ fileList' = [fileList EXCEPT ![s] = r.list]
                 /\ wk' = [wk EXCEPT ![s] = [NoWorker EXCEPT !.pc = "nextdir",
                                                             !.dirs = DOMAIN r.list]]
                 /\ numEvents' = [numEvents EXCEPT ![s] = 0]
                 /\ cancelled' = [cancelled EXCEPT ![s] = FALSE]
                 /\ delivered' = [delivered EXCEPT ![s] = <<>>]
                 /\ pc' = [pc EXCEPT ![s] = "select"]
                 /\ mu' = mu
            ELSE /\ mu' = s
                 /\ pc' = [pc EXCEPT ![s] = "sendError"]
                 /\ UNCHANGED <<fileList, wk, numEvents, cancelled, delivered>>
    /\ UNCHANGED <<fsVars, names, files, ignored, ignoreHidden, maxEvents, running, adds,
                   callVars, pending, lastCut, closePc, envVars>>

\* p.Error <- ErrWatchedFileDeleted is received; retrieveFileList goes on to
\* p.Remove / p.RemoveRecursive, which locks p.mu, held by retrieveFileList
ErrorRecv(s) ==
    /\ pc[s] = "sendError"
    /\ pc' = [pc EXCEPT ![s] = "relock"]
    /\ UNCHANGED <<fsVars, watcherVars, callVars, cycleVars, closePc, envVars>>

\* the worker signals done after the first directory it has handled
WorkerPhaseOneDir(w, fl, prev) ==
    IF w.pc = "nextdir"
    THEN IF w.dirs = {}
         THEN {[NoWorker EXCEPT !.pc = "done"]}
         ELSE {[w EXCEPT !.pc = "write", !.dir = d, !.dirs = w.dirs \ {d},
                         !.todo = writeEvts(d, fl[d], prev)] : d \in w.dirs}
    ELSE IF w.pc = "write"
    THEN {[w EXCEPT !.pc = "chmod", !.todo = chmodEvts(w.dir, fl[w.dir], prev)]}
    ELSE IF w.pc = "chmod"
    THEN LET cr == createEvts(w.dir, fl[w.dir], prev)
             rm == removeEvts(w.dir, fl[w.dir], prev)
         IN {[w EXCEPT !.pc = "rename", !.creates = cr, !.removes = rm,
                       !.todo = renameEvts(w.dir, cr, rm)]}
    ELSE IF w.pc = "rename"
    THEN {[w EXCEPT !.pc = "create", !.todo = createItems(w.creates)]}
    ELSE IF w.pc = "create"
    THEN {[w EXCEPT !.pc = "remove", !.todo = removeItems(w.removes)]}
    ELSE {[NoWorker EXCEPT !.pc = "done"]}

\* the worker goroutine w, with nothing left to send in its phase, enters the
\* next phase; fl is the cycle's listing and prev is p.files, which it reads
\* without holding p.mu.  The result is the set of records it may move to (a
\* range over a map visits the directories in any order).
WorkerPhase(w, fl, prev) ==
    IF w.pc = "nextdir"
    THEN IF w.dirs = {}
         THEN {[NoWorker EXCEPT !.pc = "done"]}
         ELSE {[w EXCEPT !.pc = "write", !.dir = d, !.dirs = w.dirs \ {d},
                         !.todo = writeEvts(d, fl[d], prev)] : d \in w.dirs}
    ELSE IF w.pc = "write"
    THEN {[w EXCEPT !.pc = "chmod", !.todo = chmodEvts(w.dir, fl[w.dir], prev)]}
    ELSE IF w.pc = "chmod"
    THEN LET cr == createEvts(w.dir, fl[w.dir], prev)
             rm == removeEvts(w.dir, fl[w.dir], prev)
         IN {[w EXCEPT !.pc = "rename", !.creates = cr, !.removes = rm,
                       !.todo = renameEvts(w.dir, cr, rm)]}
    ELSE IF w.pc = "rename"
    THEN {[w EXCEPT !.pc = "create", !.todo = createItems(w.creates)]}
    ELSE IF w.pc = "create"
    THEN {[w EXCEPT !.pc = "remove", !.todo = removeItems(w.removes)]}
    ELSE {[NoWorker EXCEPT !.pc = "nextdir", !.dirs = w.dirs]}

\* the worker is blocked: on a send of an item on evt, or on its send on done
AtSend(w) == (w.pc \in SendPhases /\ w.todo # {}) \/ w.pc = "done"

\* the records at which the worker next blocks, all phases on the way reading
\* p.files as it is now
RECURSIVE WorkerAdvance(_, _, _)
WorkerAdvance(w, fl, prev) ==
    IF AtSend(w) THEN {w}
    ELSE UNION {WorkerAdvance(w2, fl, prev) : w2 \in WorkerPhase(w, fl, prev)}

\* the worker runs on to its next send
WorkerStep(s) ==
    /\ ~cancelled[s]
    /\ wk[s].pc \in SendPhases \cup {"nextdir"}
    /\ ~AtSend(wk[s])
    /\ \E w2 \in WorkerAdvance(wk[s], fileList[s], files) : wk' = [wk EXCEPT ![s] = w2]
    /\ UNCHANGED <<fsVars, watcherVars, pc, callVars, fileList, numEvents, cancelled, pending,
                   delivered, lastCut, closePc, envVars>>

\* cancel is closed: the worker sends nothing more and goes to its deferred
\* send on done
WorkerCancelled(s) ==
    /\ cancelled[s]
    /\ wk[s].pc \in SendPhases \cup {"nextdir"}
    /\ wk' = [wk EXCEPT ![s] = [NoWorker EXCEPT !.pc = "done"]]
    /\ UNCHANGED <<fsVars, watcherVars, pc, callVars, fileList, numEvents, cancelled, pending,
                   delivered, lastCut, closePc, envVars>>

\* the cap applied one event late
CapReachedLate(n, maxE) == maxE > 0 /\ n > maxE

\* if p.maxEvents > 0 && numEvents == p.maxEvents
CapReached(n, maxE) == maxE > 0 /\ n = maxE

\* case event := <-evt: the worker's send of an item meets the loop's select
SelectEvt(s) ==
    /\ pc[s] = "select"
    /\ ~cancelled[s]
    /\ wk[s].pc \in SendPhases
    /\ \E it \in wk[s].todo :
         /\ wk' = [wk EXCEPT ![s].todo = @ \ {it},
                             ![s].creates = CreatesAfterSend(it, @),
                             ![s].removes = RemovesAfterSend(it, @)]
         /\ pending' = [pending EXCEPT ![s] = EventOf(wk[s].dir, it)]
    /\ numEvents' = [numEvents EXCEPT ![s] = @ + 1]
    /\ cancelled' = [cancelled EXCEPT ![s] = CapReached(numEvents[s] + 1, maxEvents)]
    /\ pc' = [pc EXCEPT ![s] = "sendEvent"]
    /\ UNCHANGED <<fsVars, watcherVars, callVars, fileList, delivered, lastCut,
                   closePc, envVars>>

\* p.Event <- event: a bare send, which only a receiver completes
EventRecv(s) ==
    /\ pc[s] = "sendEvent"
    /\ evConsumer = "on"
    /\ delivered' = [delivered EXCEPT ![s] = Append(@, pending[s])]
    /\ pending' = [pending EXCEPT ![s] = NoEvent]
    /\ pc' = [pc EXCEPT ![s] = "select"]
    /\ UNCHANGED <<fsVars, watcherVars, callVars, fileList, numEvents, cancelled, lastCut, wk,
                   closePc, envVars>>

\* case <-done: the worker's deferred send ends the cycle
SelectDone(s) ==
    /\ pc[s] = "select"
    /\ wk[s].pc = "done"
    /\ wk' = [wk EXCEPT ![s] = [NoWorker EXCEPT !.pc = "exited"]]
    /\ pc' = [pc EXCEPT ![s] = "commit"]
    /\ UNCHANGED <<fsVars, watcherVars, callVars, fileList, numEvents, cancelled, pending,
                   delivered, lastCut, closePc, envVars>>

\* case <-p.close: meets the send at the end of Close, which then returns.
\* Start is on its way out: nothing receives from evt or done any more, so
\* the worker can no longer be observed and ends blocked on done ("leaked");
\* the locals of the cycle are dead and are cleared.
SelectClose(s, c) ==
    /\ pc[s] = "select"
    /\ closePc[c] = "sendClose"
    /\ closePc' = [closePc EXCEPT ![c] = "returned"]
    /\ pc' = [pc EXCEPT ![s] = "sendClosed"]
    /\ wk' = [wk EXCEPT ![s] = [NoWorker EXCEPT !.pc = "leaked"]]
    /\ fileList' = [fileList EXCEPT ![s] = EmptyMap]
    /\ numEvents' = [numEvents EXCEPT ![s] = 0]
    /\ delivered' = [delivered EXCEPT ![s] = <<>>]
    /\ UNCHANGED <<fsVars, watcherVars, callVars, cancelled, pending, lastCut, envVars>>

\* p.Closed <- struct{}{} is received; evt = nil; close(cancel); return nil
ClosedRecv(s) ==
    /\ pc[s] = "sendClosed"
    /\ closedConsumer
    /\ cancelled' = [cancelled EXCEPT ![s] = TRUE]
    /\ pc' = [pc EXCEPT ![s] = "returned"]
    /\ ret' = [ret EXCEPT ![s] = "nil"]
    /\ UNCHANGED <<fsVars, watcherVars, dArg, startNames, fileList, numEvents, pending,
                   delivered, lastCut, wk, closePc, envVars>>

\* a cycle cut short keeps the snapshot it started from
CommitFilesKept(fl, prev, cut) == IF cut THEN prev ELSE fl

\* what the end of a cycle stores in p.files: the cycle's listing, whether or
\* not maxEvents cut the cycle short
CommitFiles(fl, prev, cut) == fl

\* p.mu.Lock(); p.files = fileList; p.mu.Unlock().  The locals of the cycle
\* are dead from here on and are cleared.
Commit(s) ==
    /\ pc[s] = "commit"
    /\ mu = "free"
    /\ files' = CommitFiles(fileList[s], files, cancelled[s])
    /\ lastCut' = [lastCut EXCEPT ![s] = cancelled[s]]
    /\ fileList' = [fileList EXCEPT ![s] = EmptyMap]
    /\ numEvents' = [numEvents EXCEPT ![s] = 0]
    /\ cancelled' = [cancelled EXCEPT ![s] = FALSE]
    /\ delivered' = [delivered EXCEPT ![s] = <<>>]
    /\ wk' = [wk EXCEPT ![s] = NoWorker]
    /\ pc' = [pc EXCEPT ![s] = "sleep"]
    /\ view' = Detached(view)
    /\ UNCHANGED <<fsVars, names, ignored, ignoreHidden, maxEvents, running, mu, adds,
                   callVars, pending, closePc, evConsumer, closedConsumer, scan, apiVars>>

\* time.Sleep(d)
Sleep(s) ==
    /\ pc[s] = "sleep"
    /\ pc' = [pc EXCEPT ![s] = "retrieve"]
    /\ UNCHANGED <<fsVars, watcherVars, callVars, cycleVars, closePc, envVars>>

(***************************************************************************)
(* Close.                                                                  *)
(***************************************************************************)
\* Close without the check of p.running: every call clears the watcher and
\* goes on to send on p.close
CloseCallUnchecked(c) ==
    /\ closePc[c] = "idle"
    /\ mu = "free"
    /\ running' = FALSE
    /\ files' = EmptyMap
    /\ names' = EmptyMap
    /\ closePc' = [closePc EXCEPT ![c] = "sendClose"]
    /\ view' = Detached(view)
    /\ UNCHANGED <<fsVars, ignored, ignoreHidden, maxEvents, mu, adds, pc, callVars,
                   cycleVars, evConsumer, closedConsumer, scan, apiVars>>

\* the locked part of Close; a running watcher is left with the send on
\* p.close to do
CloseCall(c) ==
    /\ closePc[c] = "idle"
    /\ mu = "free"
    /\ IF running
       THEN /\ running' = FALSE
            /\ files' = EmptyMap
            /\ names' = EmptyMap
            /\ closePc' = [closePc EXCEPT ![c] = "sendClose"]
            /\ view' = Detached(view)
       ELSE /\ closePc' = [closePc EXCEPT ![c] = "returned"]
            /\ UNCHANGED <<running, files, names, view>>
    /\ UNCHANGED <<fsVars, ignored, ignoreHidden, maxEvents, mu, adds, pc, callVars,
                   cycleVars, evConsumer, closedConsumer, scan, apiVars>>

(***************************************************************************)
(* ScanNow: forces one cycle outside the timer and returns when that       *)
(* cycle's dispatch has drained; fails when the watcher is not Running.    *)
(***************************************************************************)
\* ScanNow goes ahead whether or not the watcher is Running
ScanOutcomeAlways(isRunning) == "scan"

\* what the entry of ScanNow decides
ScanOutcome(isRunning) == IF isRunning THEN "scan" ELSE "ErrWatcherNotRunning"

\* ScanNow returns without waiting for the forced cycle
ScanDrainedEarly(lpc) == TRUE

\* the forced cycle is over: the loop is back in its sleep, or Close ended it
ScanDrained(lpc) == lpc \in {"sleep", "sendClosed", "returned"}

ScanNowCall ==
    /\ scan.pc = "idle"
    /\ mu = "free"
    /\ IF ScanOutcome(running) = "scan"
       THEN scan' = [scan EXCEPT !.pc = "requested"]
       ELSE scan' = [scan EXCEPT !.pc = "returned", !.ret = "ErrWatcherNotRunning"]
    /\ UNCHANGED <<fsVars, watcherVars, pc, callVars, cycleVars, closePc,
                   evConsumer, closedConsumer, apiVars, view>>

\* the loop is woken from its sleep and starts the forced cycle
ScanWake(s) ==
    /\ scan.pc = "requested"
    /\ pc[s] = "sleep"
    /\ pc' = [pc EXCEPT ![s] = "retrieve"]
    /\ scan' = [scan EXCEPT !.pc = "forced", !.ran = TRUE]
    /\ UNCHANGED <<fsVars, watcherVars, callVars, cycleVars, closePc,
                   evConsumer, closedConsumer, apiVars, view>>

\* ScanNow returns once the forced cycle is over
ScanReturn(s) ==
    /\ scan.pc = "forced"
    /\ ScanDrained(pc[s])
    /\ scan' = [scan EXCEPT !.pc = "returned", !.ret = "nil"]
    /\ UNCHANGED <<fsVars, watcherVars, pc, callVars, cycleVars, closePc,
                   evConsumer, closedConsumer, apiVars, view>>

\* the watcher was closed before the loop took the request up
ScanAbort(s) ==
    /\ scan.pc = "requested"
    /\ pc[s] \in {"sendClosed", "returned"}
    /\ scan' = [scan EXCEPT !.pc = "returned", !.ret = "ErrWatcherNotRunning"]
    /\ UNCHANGED <<fsVars, watcherVars, pc, callVars, cycleVars, closePc,
                   evConsumer, closedConsumer, apiVars, view>>

(***************************************************************************)
(* WatchedFiles and its caller.                                            *)
(***************************************************************************)
\* WatchedFiles locks p.mu and returns p.files, the map itself
WatchedFiles ==
    /\ ~view.held
    /\ mu = "free"
    /\ view' = [held |-> TRUE, live |-> TRUE, val |-> files, mutated |-> FALSE]
    /\ UNCHANGED <<fsVars, watcherVars, pc, callVars, cycleVars, closePc,
                   evConsumer, closedConsumer, scan, apiVars>>

\* the caller deletes the directory dir from the map it was returned; on the
\* map p.files still refers to it does so before Start is called
ViewMutate(dir) ==
    /\ view.held
    /\ ~view.mutated
    /\ dir \in DOMAIN view.val
    /\ Setup \/ ~view.live
    /\ view' = [view EXCEPT !.val = Drop(@, {dir}), !.mutated = TRUE]
    /\ files' = IF view.live THEN Drop(files, {dir}) ELSE files
    /\ UNCHANGED <<fsVars, names, ignored, ignoreHidden, maxEvents, running, mu, adds,
                   pc, callVars, cycleVars, closePc, evConsumer, closedConsumer, scan, apiVars>>

(***************************************************************************)
(* TriggerEvent (src/watcher.go).                                          *)
(***************************************************************************)
\* the readings of time.Now()
Clock == 1..2

\* the name of the placeholder: "triggered event"
TriggeredName == <<"t", "r", "i", "g", "g", "e", "r", "e", "d", " ", "e", "v", "e", "n", "t">>

\* the placeholder is sent whether or not a FileInfo was supplied
TriggerInfoPlaceholder(file, now) == FileInfo(TriggeredName, 0, 0, now, FALSE)

\* the FileInfo of the triggered event: the one supplied, or for nil a
\* *fileInfo named "triggered event" with the current time
TriggerInfo(file, now) ==
    IF file = NilInfo THEN FileInfo(TriggeredName, 0, 0, now, FALSE) ELSE file

\* TriggerEvent(op, file) builds its event and starts to send it on w.Event
TriggerEvent(op, file) ==
    /\ trig.pc = "idle"
    /\ \E now \in Clock :
          trig' = [trig EXCEPT !.pc = "send", !.op = op, !.file = file,
                               !.ev = Event(op, <<"-">>, TriggerInfo(file, now))]
    /\ UNCHANGED <<fsVars, watcherVars, pc, callVars, cycleVars, closePc,
                   evConsumer, closedConsumer, scan, wg, waitPc, start2, edits, view>>

\* w.Event <- Event{...}: a bare send, which only a receiver completes
TriggerRecv ==
    /\ trig.pc = "send"
    /\ evConsumer = "on"
    /\ trig' = [trig EXCEPT !.pc = "returned", !.got = Append(@, trig.ev)]
    /\ UNCHANGED <<fsVars, watcherVars, pc, callVars, cycleVars, closePc,
                   evConsumer, closedConsumer, scan, wg, waitPc, start2, edits, view>>

(***************************************************************************)
(* Wait and Start2.  New sets the counter of p.wg to one; Wait blocks      *)
(* while the counter is above zero.  The only call of p.wg.Done is in      *)
(* Start2, a second, smaller polling loop that takes no lock, lists        *)
(* nothing and ends when it receives from p.close.                         *)
(***************************************************************************)
\* p.wg.Wait() is entered
WaitCall(w) ==
    /\ waitPc[w] = "idle"
    /\ waitPc' = [waitPc EXCEPT ![w] = "blocked"]
    /\ UNCHANGED <<fsVars, watcherVars, pc, callVars, cycleVars, closePc,
                   evConsumer, closedConsumer, scan, wg, start2, trig, edits, view>>

\* p.wg.Wait() returns: the counter is zero
WaitReturn(w) ==
    /\ waitPc[w] = "blocked"
    /\ wg = 0
    /\ waitPc' = [waitPc EXCEPT ![w] = "returned"]
    /\ UNCHANGED <<fsVars, watcherVars, pc, callVars, cycleVars, closePc,
                   evConsumer, closedConsumer, scan, wg, start2, trig, edits, view>>

\* the entry of Start2: the check of the interval, then p.wg.Done()
Start2Call(d) ==
    /\ start2.pc = "idle"
    /\ IF d < Millisecond
       THEN /\ start2' = [pc |-> "returned", ret |-> "ErrDurationTooShort"]
            /\ wg' = wg
       ELSE /\ start2' = [start2 EXCEPT !.pc = "loop"]
            /\ wg' = wg - 1
    /\ UNCHANGED <<fsVars, watcherVars, pc, callVars, cycleVars, closePc,
                   evConsumer, closedConsumer, scan, waitPc, trig, edits, view>>

\* case <-w.close of Start2's loop meets the send at the end of Close
Start2Close(c) ==
    /\ start2.pc = "loop"
    /\ closePc[c] = "sendClose"
    /\ closePc' = [closePc EXCEPT ![c] = "returned"]
    /\ start2' = [pc |-> "returned", ret |-> "nil"]
    /\ UNCHANGED <<fsVars, watcherVars, pc, callVars, cycleVars,
                   evConsumer, closedConsumer, scan, wg, waitPc, trig, edits, view>>

(***************************************************************************)
(* The consumers of the channels.                                          *)
(***************************************************************************)
\* the consumer of p.Event stops receiving
ConsumerStop ==
    /\ evConsumer = "on"
    /\ evConsumer' = "stopped"
    /\ UNCHANGED <<fsVars, watcherVars, pc, callVars, cycleVars, closePc, closedConsumer, scan,
                   apiVars, view>>

\* the consumer of p.Closed goes away
ClosedConsumerStop ==
    /\ closedConsumer
    /\ closedConsumer' = FALSE
    /\ UNCHANGED <<fsVars, watcherVars, pc, callVars, cycleVars, closePc, evConsumer, scan,
                   apiVars, view>>

(***************************************************************************)
(* Specifications.                                                         *)
(***************************************************************************)
FsNext ==
    \/ \E p \in FilePaths : FsCreate(p)
    \/ \E p \in FilePaths : FsRemove(p)
    \/ \E p \in FilePaths : FsWrite(p)
    \/ \E p \in FilePaths : FsChmod(p)
    \/ \E p \in FilePaths, q \in FilePaths : FsRename(p, q)

LoopNext(s) ==
    \/ RetrieveFileList(s)
    \/ ErrorRecv(s)
    \/ WorkerStep(s)
    \/ WorkerCancelled(s)
    \/ SelectEvt(s)
    \/ EventRecv(s)
    \/ SelectDone(s)
    \/ \E c \in Closers : SelectClose(s, c)
    \/ ClosedRecv(s)
    \/ Commit(s)
    \/ Sleep(s)

\* a watcher with at most one root: one Start call, one Close call and a
\* changing filesystem
Next ==
    \/ FsNext
    \/ \E c \in AddCalls : DOMAIN names = {} /\ Add(c[1], c[2])
    \/ \E a \in (-1)..MaxCap : SetMaxEvents(a)
    \/ \E d \in Durations : StartCall("s1", d)
    \/ LoopNext("s1")
    \/ \E c \in Closers : CloseCall(c)

Spec == Init /\ [][Next]_vars

\* two Start calls racing with one Close call, files being removed meanwhile
StartNext ==
    \/ \E p \in FilePaths : FsRemove(p)
    \/ SetMaxEvents(1)
    \/ \E c \in AddCalls : DOMAIN names = {} /\ Add(c[1], c[2])
    \/ \E s \in Starters, d \in Durations : StartCall(s, d)
    \/ \E s \in Starters : LoopNext(s)
    \/ \E c \in Closers : CloseCall(c)

StartSpec == Init /\ [][StartNext]_vars

\* the steps of the loop of a watcher whose roots stay in place and whose
\* cap is not set
PlainLoop(s) ==
    \/ RetrieveFileList(s)
    \/ WorkerStep(s)
    \/ SelectEvt(s)
    \/ EventRecv(s)
    \/ SelectDone(s)
    \/ Commit(s)
    \/ Sleep(s)

\* case <-p.close of the select, and the send on p.Closed after it
CloseLoop(s) ==
    \/ \E c \in Closers : SelectClose(s, c)
    \/ ClosedRecv(s)

\* one Start call and one Close call on a watcher whose files are written
\* to, with a consumer of p.Event that may stop receiving
DispatchNext ==
    \/ \E p \in FilePaths : FsWrite(p)
    \/ \E c \in AddCalls : DOMAIN names = {} /\ Add(c[1], c[2])
    \/ StartCall("s1", Nanosecond)
    \/ PlainLoop("s1")
    \/ CloseLoop("s1")
    \/ \E c \in Closers : CloseCall(c)
    \/ ConsumerStop

\* the goroutines are scheduled fairly, and a select that finds the case of
\* p.close ready again and again takes it in the end
DispatchSpec ==
    /\ Init
    /\ [][DispatchNext]_vars
    /\ WF_vars(PlainLoop("s1"))
    /\ WF_vars(CloseLoop("s1"))
    /\ SF_vars(\E c \in Closers : SelectClose("s1", c))

\* one Start call and one Close call, with a consumer of p.Event that keeps
\* receiving and a consumer of p.Closed that may be absent
ClosedNext ==
    \/ \E p \in FilePaths : FsWrite(p)
    \/ \E c \in AddCalls : DOMAIN names = {} /\ Add(c[1], c[2])
    \/ StartCall("s1", Nanosecond)
    \/ PlainLoop("s1")
    \/ CloseLoop("s1")
    \/ \E c \in Closers : CloseCall(c)
    \/ ClosedConsumerStop

ClosedSpec ==
    /\ Init
    /\ [][ClosedNext]_vars
    /\ WF_vars(PlainLoop("s1"))
    /\ WF_vars(CloseLoop("s1"))
    /\ SF_vars(\E c \in Closers : SelectClose("s1", c))

\* up to MaxAdds roots are added and the watcher is started; the
\* filesystem does not change
AddNext ==
    \/ \E c \in AddCalls : Add(c[1], c[2])
    \/ StartCall("s1", Nanosecond)
    \/ PlainLoop("s1")

AddSpec == Init /\ [][AddNext]_vars

\* a watcher started on a directory tree in which files and whole
\* subdirectories are removed, the modification time of a file or of a
\* subdirectory changes and files change in size only
TreeNext ==
    \/ FsRemoveAll(SubDir)
    \/ \E q \in {Join(WatchDir, <<"a">>), Join(SubDir, <<"a">>)} : FsResize(q)
    \/ \E q \in {SubDir, Join(WatchDir, <<"a">>)} : FsWrite(q)
    \/ \E q \in {Join(WatchDir, <<"a">>), Join(SubDir, <<"a">>)} : FsRemove(q)
    \/ \E c \in AddCalls : DOMAIN names = {} /\ Add(c[1], c[2])
    \/ StartCall("s1", Nanosecond)
    \/ PlainLoop("s1")

TreeSpec == InitWith(TreeFs) /\ [][TreeNext]_vars

\* a watcher with up to MaxAdds roots, some of which are removed from the
\* filesystem while it runs; p.Error always has a receiver
VanishNext ==
    \/ \E q \in FilePaths : FsRemove(q)
    \/ \E c \in AddCalls : Add(c[1], c[2])
    \/ StartCall("s1", Nanosecond)
    \/ PlainLoop("s1")
    \/ ErrorRecv("s1")

\* the goroutine of Start is scheduled fairly
VanishSpec ==
    /\ InitWith(InitFs)
    /\ [][VanishNext]_vars
    /\ WF_vars(PlainLoop("s1") \/ ErrorRecv("s1"))

\* one Start call, one Close call and one ScanNow call on a watcher in whose
\* directory files are created; the timer does not tick while a forced cycle
\* is being waited for
ScanNext ==
    \/ \E q \in FilePaths : FsCreate(q)
    \/ \E c \in AddCalls : DOMAIN names = {} /\ Add(c[1], c[2])
    \/ StartCall("s1", Nanosecond)
    \/ RetrieveFileList("s1")
    \/ WorkerStep("s1")
    \/ SelectEvt("s1")
    \/ EventRecv("s1")
    \/ SelectDone("s1")
    \/ Commit("s1")
    \/ scan.pc # "forced" /\ Sleep("s1")
    \/ CloseLoop("s1")
    \/ \E c \in Closers : CloseCall(c)
    \/ ScanNowCall
    \/ ScanWake("s1")
    \/ ScanReturn("s1")
    \/ ScanAbort("s1")

ScanSpec == Init /\ [][ScanNext]_vars

\* the roots and the ignore set of a watcher are edited and the watcher is
\* started, on a directory with a hidden file and a subdirectory
ApiNext ==
    \/ \E b \in BOOLEAN : IgnoreHiddenFiles(b)
    \/ \E c \in AddCalls : Add(c[1], c[2])
    \/ \E n \in RootNames : Remove(n)
    \/ \E n \in RootNames : RemoveRecursive(n)
    \/ \E q \in IgnorePaths : Ignore(q)
    \/ StartCall("s1", Nanosecond)
    \/ PlainLoop("s1")

ApiSpec == InitWith(ApiFs) /\ [][ApiNext]_vars

\* one Start call, one Close call and one TriggerEvent call on a watcher whose
\* files are written to, with a consumer of w.Event that may stop receiving
TriggerNext ==
    \/ \E q \in FilePaths : FsWrite(q)
    \/ \E c \in AddCalls : DOMAIN names = {} /\ Add(c[1], c[2])
    \/ StartCall("s1", Nanosecond)
    \/ PlainLoop("s1")
    \/ CloseLoop("s1")
    \/ CloseCall("c1")
    \/ ConsumerStop
    \/ \E op \in {"Create", "Remove"}, file \in {NilInfo, NewFile(Join(WatchDir, <<"a">>))} :
          TriggerEvent(op, file)
    \/ TriggerRecv

\* the goroutines are scheduled fairly, and a select that finds the case of
\* p.close ready again and again takes it in the end
TriggerSpec ==
    /\ Init
    /\ [][TriggerNext]_vars
    /\ WF_vars(PlainLoop("s1"))
    /\ WF_vars(CloseLoop("s1"))
    /\ SF_vars(\E c \in Closers : SelectClose("s1", c))
    /\ WF_vars(TriggerRecv)

\* a caller takes the watched files at some moment and may delete from what
\* it got, while roots are added and removed and the watcher is started and
\* closed
ViewNext ==
    \/ \E c \in AddCalls : DOMAIN names = {} /\ Add(c[1], c[2])
    \/ RemoveRecursive(WatchDir)
    \/ Ignore(WatchDir)
    \/ StartCall("s1", Nanosecond)
    \/ PlainLoop("s1")
    \/ CloseLoop("s1")
    \/ CloseCall("c1")
    \/ WatchedFiles
    \/ \E dir \in {TopDir, WatchDir} : ViewMutate(dir)

ViewSpec == Init /\ [][ViewNext]_vars

\* one Start call and two Close calls, made at any moment and in any order
CloseNext ==
    \/ \E c \in AddCalls : Add(c[1], c[2])
    \/ StartCall("s1", Nanosecond)
    \/ PlainLoop("s1")
    \/ \E c \in AllClosers : SelectClose("s1", c)
    \/ ClosedRecv("s1")
    \/ \E c \in AllClosers : CloseCall(c)

CloseSpec == Init /\ [][CloseNext]_vars

\* one Start call, one Start2 call, one Close call and the Wait calls, on a
\* watcher whose filesystem does not change
WaitNext ==
    \/ \E c \in AddCalls : DOMAIN names = {} /\ Add(c[1], c[2])
    \/ StartCall("s1", Nanosecond)
    \/ PlainLoop("s1")
    \/ CloseLoop("s1")
    \/ CloseCall("c1")
    \/ \E w \in Waiters : WaitCall(w)
    \/ \E w \in Waiters : WaitReturn(w)
    \/ \E d \in {Nanosecond, Millisecond} : Start2Call(d)
    \/ Start2Close("c1")

\* the goroutines of Start and of the Wait calls are scheduled fairly
WaitSpec ==
    /\ Init
    /\ [][WaitNext]_vars
    /\ WF_vars(PlainLoop("s1"))
    /\ WF_vars(CloseLoop("s1"))
    /\ WF_vars(\E w \in Waiters : WaitReturn(w))

(***************************************************************************)
(* Properties.                                                             *)
(***************************************************************************)
Min(a, b) == IF a < b THEN a ELSE b
Range(sq) == {sq[i] : i \in DOMAIN sq}

\* no Close call has touched the watcher
NoClose == \A c \in Closers : closePc[c] = "idle"

\* the Start calls that are inside the polling loop
ActiveLoops == {s \in Starters : pc[s] \in LoopPcs}

\* C3: at most one polling loop is active at any time, for every
\* interleaving of Start and Close calls: a Start call made while another
\* Start call's loop is still running does not enter the loop.
C3_OneControlLoop == Cardinality(ActiveLoops) <= 1

\* a Start call that was given an interval below the minimum has returned
\* ErrDurationTooShort and is nowhere in the loop
ShortIntervalReturned ==
    \A s \in Starters :
        (pc[s] # "idle" /\ dArg[s] < Nanosecond)
            => (pc[s] = "returned" /\ ret[s] = "ErrDurationTooShort")

\* the step of a Start call with an interval below the minimum returns
\* ErrDurationTooShort and leaves p.running as it was
ShortIntervalStep ==
    \A s \in Starters :
        (pc[s] = "idle" /\ pc'[s] # "idle" /\ dArg'[s] < Nanosecond)
            => (pc'[s] = "returned" /\ ret'[s] = "ErrDurationTooShort"
                /\ running' = running)

NoRootsNoError ==
    \A s \in Starters :
        /\ ret[s] # "ErrNothingAdded"
        /\ (startNames[s] = {} /\ pc[s] \in {"select", "sendEvent", "commit"})
               => fileList[s] = EmptyMap

\* the step of a Start call with a valid interval on a watcher that is not
\* running and has no root: the watcher becomes Running, the call enters the loop
NoRootsStep ==
    \A s \in Starters :
        (pc[s] = "idle" /\ pc'[s] # "idle" /\ startNames'[s] = {}
         /\ dArg'[s] >= Nanosecond /\ ~running)
            => (pc'[s] = "retrieve" /\ running')

Yielded(s) == CycleEvents(fileList[s], files)

\* C6: with the cap set to n by SetMaxEvents, a cycle whose comparison
\* yields k events delivers exactly min(k, n) of them when n > 0 and all k
\* of them when n < 1; each delivered event is one of the k, delivered once.
C6_DeliveredCount ==
    \A s \in Starters :
        (pc[s] = "commit" /\ NoClose)
            => /\ Len(delivered[s]) = IF maxEvents > 0
                                      THEN Min(Cardinality(Yielded(s)), maxEvents)
                                      ELSE Cardinality(Yielded(s))
               /\ Range(delivered[s]) \subseteq Yielded(s)
               /\ Cardinality(Range(delivered[s])) = Len(delivered[s])

\* a cycle that yields more events than the cap has ended with exactly cap
\* events delivered
C6_Witness ==
    \E s \in Starters :
        /\ pc[s] = "commit"
        /\ NoClose
        /\ maxEvents > 0
        /\ Cardinality(Yielded(s)) > maxEvents
        /\ Len(delivered[s]) = maxEvents

\* the commit of a cycle that the cap cut short stores the whole listing
CutCommitStep ==
    \A s \in Starters :
        (pc[s] = "commit" /\ pc'[s] = "sleep" /\ cancelled[s]
         /\ Cardinality(Yielded(s)) > Len(delivered[s]))
            => files' = fileList[s]

\* the cycle after a cut one delivers only what its own listing differs in
\* from p.files, and nothing when the listing equals p.files
AfterCut ==
    \A s \in Starters :
        (pc[s] = "commit" /\ lastCut[s] /\ NoClose)
            => /\ Range(delivered[s]) \subseteq Yielded(s)
               /\ fileList[s] = files => delivered[s] = <<>>

\* C7: when the cap cuts a cycle short, the whole current snapshot is still
\* committed as the previous snapshot; the changes that were discarded are
\* not queued and are not reported by a later cycle.
C7_CutCycleCommitsSnapshot == []AfterCut /\ [][CutCommitStep]_vars

\* after a cycle that discarded a change, the next cycle has listed the
\* same filesystem and ended with nothing delivered
C7_Witness ==
    \E s \in Starters :
        /\ pc[s] = "commit"
        /\ lastCut[s]
        /\ NoClose
        /\ fsOps >= 2
        /\ fileList[s] = files
        /\ files # EmptyMap
        /\ delivered[s] = <<>>

\* the pairs <<dir, A, B>>: A is in p.files only, B in the listing only,
\* both in directory dir, with equal size, mode, modification time and isDir
RenamePairs(s) ==
    {x \in (DOMAIN fileList[s]) \X FileBases \X FileBases :
        /\ x[2] \in DOMAIN FilesOf(files, x[1]) /\ x[2] \notin DOMAIN fileList[s][x[1]]
        /\ x[3] \in DOMAIN fileList[s][x[1]] /\ x[3] \notin DOMAIN FilesOf(files, x[1])
        /\ SameMeta(fileList[s][x[1]][x[3]], FilesOf(files, x[1])[x[2]])}

\* the positions of delivered[s] that hold a Rename of from to to
RenamesOf(s, from, to) ==
    {i \in DOMAIN delivered[s] :
        /\ delivered[s][i].Op = "Rename"
        /\ delivered[s][i].Path = RenamePath(from, to)}

\* C8: when A is only in the previous snapshot and B only in the current
\* one, in the same directory and with equal size, mode, modification time
\* and isDir, a cycle that runs to its end uncut delivers exactly one Rename
\* of A to B, and no cycle delivers a Create or a Remove for A or for B.
C8_RenamePairing ==
    \A s \in Starters :
        (pc[s] \in {"select", "sendEvent", "commit"} /\ NoClose)
            => \A x \in RenamePairs(s) :
                 LET A == Join(x[1], x[2])
                     B == Join(x[1], x[3])
                 IN /\ \A i \in DOMAIN delivered[s] :
                          delivered[s][i].Op \in {"Create", "Remove"}
                              => delivered[s][i].Path \notin {A, B}
                    /\ pending[s].Op \in {"Create", "Remove"} => pending[s].Path \notin {A, B}
                    /\ Cardinality(RenamesOf(s, A, B)) <= 1
                    /\ (pc[s] = "commit" /\ ~cancelled[s])
                           => Cardinality(RenamesOf(s, A, B)) = 1

\* a cycle has ended in which a was renamed to c and one Rename was delivered
C8_Witness ==
    \E s \in Starters :
        /\ pc[s] = "commit"
        /\ NoClose
        /\ ~cancelled[s]
        /\ RenamePairs(s) # {}
        /\ \E x \in RenamePairs(s) :
             Cardinality(RenamesOf(s, Join(x[1], x[2]), Join(x[1], x[3]))) = 1

\* C9: every Rename event carries the created path as its current path and
\* the removed path as its previous path; every other event has an empty
\* previous path.
C9_RenameCarriesBothPaths ==
    \A s \in Starters : \A i \in DOMAIN delivered[s] :
        LET e == delivered[s][i]
        IN IF e.Op = "Rename"
           THEN /\ e.Path \in PathsOf(fileList[s])
                /\ "OldPath" \in DOMAIN e
                /\ e.OldPath \in PathsOf(files) \ PathsOf(fileList[s])
           ELSE "OldPath" \in DOMAIN e => e.OldPath = <<>>

\* C1: when Close is called on a Running watcher while the dispatcher is
\* blocked sending an event to a consumer that has stopped receiving, there
\* is no deadlock: the send is abandoned, Close returns and the loop leaves
\* its cycle.
C1_CloseUnblocksDispatch ==
    (/\ pc["s1"] = "sendEvent"
     /\ evConsumer = "stopped"
     /\ \E c \in Closers : closePc[c] = "sendClose")
        ~> (/\ \A c \in Closers : closePc[c] = "returned"
            /\ pc["s1"] \notin LoopPcs)

\* C2: after Close is called on a Running watcher, Start eventually returns
\* under fair scheduling, whether or not anything receives from p.Closed.
C2_StartReturnsAfterClose ==
    (\E c \in Closers : closePc[c] = "sendClose") ~> (pc["s1"] = "returned")

\* C10: a cycle whose listing equals the previous snapshot delivers no
\* event; in particular, as long as the filesystem has not changed since the
\* roots were added, no cycle yields or delivers an event, Add having stored
\* exactly what a listing produces.
C10_QuietCycleSilent ==
    \A s \in Starters :
        /\ (pc[s] = "commit" /\ NoClose /\ fileList[s] = files) => delivered[s] = <<>>
        /\ (fsOps = 0 /\ NoClose /\ pc[s] \in {"select", "sendEvent", "commit"})
               => (fileList[s] = files /\ delivered[s] = <<>> /\ pending[s] = NoEvent)

\* the paths the listing of s has and p.files has not, and the other way round
AddedPaths(s) == PathsOf(fileList[s]) \ PathsOf(files)
RemovedPaths(s) == PathsOf(files) \ PathsOf(fileList[s])

\* the FileInfo a snapshot holds for path q
InfoOf(snap, q) == snap[Dir(q)][Base(q)]

\* no added path has the size, mode, modification time and isDir of a removed one
NoCoincidence(s) ==
    \A x \in AddedPaths(s), y \in RemovedPaths(s) :
        ~SameMeta(InfoOf(fileList[s], x), InfoOf(files, y))

\* the positions of delivered[s] that hold an event op for path q
EventsOf(s, op, q) ==
    {i \in DOMAIN delivered[s] : delivered[s][i].Op = op /\ delivered[s][i].Path = q}

\* the cycle of s has run to its end, uncut, with no Close call made
CycleEnded(s) == pc[s] = "commit" /\ NoClose /\ ~cancelled[s]

\* C11: when no added path has the metadata of a removed path, a cycle that
\* runs to its end delivers exactly one Create for each path the listing has
\* and the previous snapshot has not, exactly one Remove for each path the
\* previous snapshot has and the listing has not, no other Create or Remove,
\* and no Rename.
C11_CreatesAndRemoves ==
    \A s \in Starters :
        (CycleEnded(s) /\ NoCoincidence(s))
            => /\ \A q \in AddedPaths(s) : Cardinality(EventsOf(s, "Create", q)) = 1
               /\ \A q \in RemovedPaths(s) : Cardinality(EventsOf(s, "Remove", q)) = 1
               /\ \A i \in DOMAIN delivered[s] :
                    /\ delivered[s][i].Op # "Rename"
                    /\ delivered[s][i].Op = "Create" => delivered[s][i].Path \in AddedPaths(s)
                    /\ delivered[s][i].Op = "Remove" => delivered[s][i].Path \in RemovedPaths(s)

\* the paths both the listing of s and p.files have
KeptPaths(s) == PathsOf(fileList[s]) \cap PathsOf(files)

\* C12: a path present in both snapshots that is not a directory and whose
\* modification time differs gets exactly one Write event in a cycle that
\* runs to its end; no Write event is ever delivered for a directory.
C12_WriteForFilesOnly ==
    \A s \in Starters :
        /\ \A i \in DOMAIN delivered[s] :
               delivered[s][i].Op = "Write" => ~delivered[s][i].FileInfo.isDir
        /\ CycleEnded(s) =>
               \A q \in KeptPaths(s) :
                   (/\ ~InfoOf(fileList[s], q).isDir
                    /\ InfoOf(fileList[s], q).modTime # InfoOf(files, q).modTime)
                       => Cardinality(EventsOf(s, "Write", q)) = 1

\* the mode, and the modification time, of path q differ between the
\* listing of s and p.files
ModeDiffers(s, q) == InfoOf(fileList[s], q).mode # InfoOf(files, q).mode
TimeDiffers(s, q) == InfoOf(fileList[s], q).modTime # InfoOf(files, q).modTime

\* C13: in a cycle that runs to its end, a path present in both snapshots
\* whose mode differs and whose modification time is unchanged gets exactly
\* one Chmod and no Write; a path whose mode and modification time both
\* differ gets one Chmod and one Write.
C13_ChmodAndWrite ==
    \A s \in Starters :
        CycleEnded(s) =>
            \A q \in KeptPaths(s) :
                ModeDiffers(s, q) =>
                    /\ Cardinality(EventsOf(s, "Chmod", q)) = 1
                    /\ Cardinality(EventsOf(s, "Write", q)) = IF TimeDiffers(s, q) THEN 1 ELSE 0

\* a cycle has ended that delivered a Chmod and a Write for a file whose
\* mode and modification time both changed
C13_Witness ==
    \E s \in Starters :
        /\ CycleEnded(s)
        /\ \E q \in KeptPaths(s) :
             /\ ModeDiffers(s, q)
             /\ TimeDiffers(s, q)
             /\ Cardinality(EventsOf(s, "Chmod", q)) = 1
             /\ Cardinality(EventsOf(s, "Write", q)) = 1

\* C14: a watched file whose size differs between the previous snapshot and
\* the listing while its modification time is the same gets a Write event in
\* a cycle that runs to its end.
C14_SizeChangeIsWrite ==
    \A s \in Starters :
        CycleEnded(s) =>
            \A q \in KeptPaths(s) :
                (/\ ~InfoOf(fileList[s], q).isDir
                 /\ InfoOf(fileList[s], q).size # InfoOf(files, q).size
                 /\ ~TimeDiffers(s, q))
                    => EventsOf(s, "Write", q) # {}

\* C15: within one cycle every Rename event is delivered before every
\* Create, Remove, Write and Chmod event of the cycle, whatever the number of
\* directories listed.
C15_RenamesFirst ==
    \A s \in Starters :
        \A i \in DOMAIN delivered[s], j \in DOMAIN delivered[s] :
            (i < j /\ delivered[s][j].Op = "Rename") => delivered[s][i].Op = "Rename"

\* between two cycles (from the end of the inner loop to the next listing)
\* no worker is alive and no event is on its way; a worker is alive only
\* while its loop is in the inner loop
CyclesApart ==
    \A s \in Starters :
        /\ pc[s] \in {"commit", "sleep", "retrieve"}
               => (wk[s].pc \in {"none", "exited"} /\ pending[s] = NoEvent)
        /\ wk[s].pc \in SendPhases \cup {"nextdir", "done"}
               => pc[s] \in {"select", "sendEvent"}

\* the inner loop is left only with nothing on its way and, unless the cap
\* or Close cut the cycle, with every event of the cycle delivered
CycleDrainedStep ==
    \A s \in Starters :
        (pc[s] \in {"select", "sendEvent"} /\ pc'[s] = "commit")
            => /\ pending[s] = NoEvent
               /\ wk[s].pc = "done"
               /\ cancelled[s] \/ ~NoClose \/ Range(delivered[s]) = Yielded(s)

\* the next listing, with which the classification of the next cycle
\* begins, is made only after the commit and the sleep of the cycle before
NextCycleStep ==
    \A s \in Starters :
        (wk[s].pc # "nextdir" /\ wk'[s].pc = "nextdir")
            => (pc[s] = "retrieve" /\ wk[s].pc = "none" /\ delivered'[s] = <<>>)

\* C16: the classification of cycle N+1 does not begin until every event
\* of cycle N has been delivered or the cycle was cut off by the cap or by
\* cancellation; no event of cycle N is delivered after the next cycle began.
C16_NoCrossCycleInterleaving ==
    []CyclesApart /\ [][CycleDrainedStep /\ NextCycleStep]_vars

\* a cycle over two directories has delivered two events and left its inner loop
C16_Witness ==
    \E s \in Starters :
        /\ pc[s] = "commit"
        /\ NoClose
        /\ ~cancelled[s]
        /\ Cardinality(DOMAIN fileList[s]) = 2
        /\ Len(delivered[s]) = 2
        /\ Range(delivered[s]) = Yielded(s)

\* the registered roots that are gone from the filesystem
VanishedRoots == {n \in DOMAIN names : ~Exists(fs, n)}

\* C17: when the listing of a registered root fails because the root is
\* gone, WatchedFileDeleted is delivered on the error channel, that root
\* leaves the watch set, and the loop goes on: the cycle gets its listing of
\* the roots that are left and a later cycle follows.
C17_VanishedRootEvicted ==
    (pc["s1"] = "sendError")
        ~> (pc["s1"] = "select" /\ VanishedRoots = {} /\ mu = "free")

\* a Start call that entered the loop has returned only if Close was called
ReturnsOnlyByClose ==
    \A s \in Starters : (pc[s] = "returned" /\ ret[s] = "nil") => ~NoClose

\* C18: once Running, the loop is left only through Close: whatever the
\* filesystem does (a root vanishes, a listing fails, the listing is empty),
\* Start does not return and polling goes on, every cycle being followed by
\* the next one.
C18_OnlyCloseEndsPolling ==
    /\ []ReturnsOnlyByClose
    /\ (pc["s1"] \in LoopPcs /\ NoClose) ~> (pc["s1"] = "sleep")

\* the step of a ScanNow call on a watcher that is not Running returns
\* ErrWatcherNotRunning and moves neither the loop nor any event
ScanRefusedStep ==
    (scan.pc = "idle" /\ scan'.pc # "idle" /\ ~running)
        => /\ scan'.pc = "returned"
           /\ scan'.ret = "ErrWatcherNotRunning"
           /\ UNCHANGED <<pc, wk, pending, delivered, files>>

\* no cycle ran for a ScanNow call that returned ErrWatcherNotRunning
ScanRefusedRanNothing == scan.ret = "ErrWatcherNotRunning" => ~scan.ran

\* C19: ScanNow returns NotRunning, without running a cycle or delivering
\* an event, whenever the watcher is not Running, before Start as well as
\* after Close.
C19_ScanNowNotRunning == []ScanRefusedRanNothing /\ [][ScanRefusedStep]_vars

\* ScanNow, called after Start ran and Close ended it, has returned
\* ErrWatcherNotRunning
C19_Witness ==
    /\ scan.pc = "returned"
    /\ scan.ret = "ErrWatcherNotRunning"
    /\ pc["s1"] = "returned"
    /\ ret["s1"] = "nil"
    /\ \A c \in Closers : closePc[c] = "returned"

\* a worker of s is alive or an event of s is on its way
InCycle(s) ==
    \/ pc[s] \in {"retrieve", "select", "sendEvent", "commit"}
    \/ wk[s].pc \in SendPhases \cup {"nextdir", "done"}
    \/ pending[s] # NoEvent

\* ScanNow on a Running watcher starts a cycle from the loop's sleep, and
\* returns nil only when that cycle is over with nothing left on its way
ScanForcedStep ==
    /\ (scan.pc = "requested" /\ scan'.pc = "forced")
           => (pc["s1"] = "sleep" /\ pc'["s1"] = "retrieve")
    /\ (scan.pc # "returned" /\ scan'.pc = "returned" /\ scan'.ret = "nil")
           => (scan.ran /\ ~InCycle("s1"))

\* events are delivered only inside a cycle, and a cycle begins only from
\* the sleep (timer tick or ScanNow) or at the entry of Start
QuietBetweenTicks ==
    \A s \in Starters :
        /\ pc[s] = "sleep" => (delivered[s] = <<>> /\ ~InCycle(s))
        /\ delivered[s] # <<>> => pc[s] \in {"select", "sendEvent", "commit"}

\* C20: ScanNow on a Running watcher runs one cycle outside the timer and
\* returns only after every event of that cycle has been received; between
\* timer ticks nothing is delivered until the next tick or ScanNow.
C20_ScanNowDrains == []QuietBetweenTicks /\ [][ScanForcedStep]_vars

\* ScanNow has returned nil after a forced cycle that found the file
\* created since the cycle before and committed it
C20_Witness ==
    /\ scan.pc = "returned"
    /\ scan.ret = "nil"
    /\ scan.ran
    /\ NoClose
    /\ fsOps > 0
    /\ PathsOf(files) = {q \in DOMAIN fs : Dir(q) \in DOMAIN files}
    /\ pc["s1"] = "sleep"

(***************************************************************************)
(* Wait.                                                                   *)
(***************************************************************************)
\* the Start call s is past its checks on entry: it is in its loop or has
\* left it through Close
Started(s) == pc[s] \in LoopPcs \cup {"sendClosed"} \/ (pc[s] = "returned" /\ ret[s] = "nil")

\* no Wait call has returned unless a Start call, or the Start2 call, is
\* past its entry
WaitAfterStart ==
    \A w \in Waiters :
        waitPc[w] = "returned" => (start2.pc = "loop" \/ start2.ret = "nil" \/ \E s \in Starters : Started(s))

\* C21: Wait does not return before Start has been called and has completed
\* its initial setup, and once a Start call has succeeded every Wait call
\* that is blocked, or is made later and blocks, returns.
C21_WaitFollowsStart ==
    /\ []WaitAfterStart
    /\ \A w \in Waiters :
          ((\E s \in Starters : Started(s)) /\ waitPc[w] = "blocked") ~> (waitPc[w] = "returned")

(***************************************************************************)
(* Close.                                                                  *)
(***************************************************************************)
\* the Close call c takes its locked part in this step
CloseStep(c) == closePc[c] = "idle" /\ closePc'[c] # "idle"

\* the step leaves the Close call c returned without a send on p.close to
\* do, and the roots, the watched files and the running flag as they were
CloseDidNothing(c) ==
    /\ closePc'[c] = "returned"
    /\ names' = names
    /\ files' = files
    /\ running' = running

\* a Close call has cleared the watcher
CloseTookEffect ==
    \/ \E c \in AllClosers : closePc[c] = "sendClose"
    \/ \E s \in Starters : pc[s] = "sendClosed" \/ (pc[s] = "returned" /\ ret[s] = "nil")

\* C22: a Close call on a watcher that is not running returns at once, has no
\* close signal to send and leaves the roots and the watched files as they
\* were; so does every Close call made once another one has cleared the
\* watcher, whether or not that one has returned.
C22_CloseWhenNotRunning ==
    [][\A c \in AllClosers :
          (CloseStep(c) /\ (~running \/ CloseTookEffect)) => CloseDidNothing(c)]_vars

\* a Close call cleared a running watcher with roots and is still sending its
\* signal, and the other Close call has returned
C22_Witness ==
    /\ closePc["c1"] = "sendClose"
    /\ closePc["c2"] = "returned"
    /\ pc["s1"] \in LoopPcs
    /\ startNames["s1"] # {}

\* the Close call that cleared the running watcher has returned: its send on
\* p.close was received by the loop
CloseReturned == \E s \in Starters : pc[s] = "sendClosed" \/ (pc[s] = "returned" /\ ret[s] = "nil")

\* C23: once Close has returned on a running watcher, the roots and the
\* retained snapshot are empty and stay empty, wherever the loop stood when
\* Close was called.
C23_ClosedWatcherIsEmpty == CloseReturned => (names = EmptyMap /\ files = EmptyMap)

\* C24: Closed is terminal: once a Close call has cleared a running watcher,
\* no Start call sets the running flag again.
C24_ClosedIsTerminal == [][CloseTookEffect => (running' => running)]_vars

(***************************************************************************)
(* Roots, ignored paths and the watched files.                             *)
(***************************************************************************)
\* C25: after any sequence of Add, AddRecursive, Remove, RemoveRecursive and
\* Ignore calls no path is both ignored and a root.
C25_IgnoredAndRootsDisjoint == DOMAIN names \cap ignored = {}

\* q is ignored or lies beneath an ignored directory
BeneathIgnored(q) == \E i \in ignored : IsUnder(q, i)

\* q, or a directory above it from the watched directory down, is hidden
BeneathHidden(q) ==
    \E k \in (Len(WatchDir) + 1)..Len(q) : q[k] = "." /\ q[k - 1] = Sep

\* q must not be watched
Excluded(q) == BeneathIgnored(q) \/ (ignoreHidden /\ BeneathHidden(q))

\* C26: no ignored path, no path beneath an ignored directory and, when
\* hidden files are skipped, no hidden path or path beneath a hidden
\* directory is in the watched files or in the listing of a cycle.
C26_ExcludedNeverWatched ==
    /\ \A q \in PathsOf(files) : ~Excluded(q)
    /\ \A s \in Starters : \A q \in PathsOf(fileList[s]) : ~Excluded(q)

\* the call Remove(n) or RemoveRecursive(n) is made in this step
RemoveStep(op, n) == edits' = Append(edits, <<op, n>>)

\* the paths the root r contributes to the watched files
Contributed(r) == PathsOf(listRoot(r, names[r], fs, ignored, ignoreHidden).list)

\* C27: Remove(n) and RemoveRecursive(n) unregister the root n and no other,
\* leave the paths of every other root watched, and on a watcher whose only
\* root is n leave no watched path.
C27_RemoveExactlyRoot ==
    [][\A op \in {"Remove", "RemoveRecursive"} : \A n \in RootNames :
          RemoveStep(op, n) =>
             /\ names' = Drop(names, {n})
             /\ \A r \in DOMAIN names \ {n} : Contributed(r) \subseteq PathsOf(files')
             /\ (DOMAIN names = {n} /\ adds = 1 /\ edits = <<>>) => PathsOf(files') = {}]_vars

(***************************************************************************)
(* TriggerEvent.                                                           *)
(***************************************************************************)
\* a TriggerEvent call that has returned delivered one event: of the kind it
\* was given, with the FileInfo it was given or, for nil, the placeholder
TriggerDelivered ==
    /\ trig.pc # "returned" => trig.got = <<>>
    /\ trig.pc = "returned" =>
          /\ Len(trig.got) = 1
          /\ trig.got[1].Op = trig.op
          /\ trig.file # NilInfo => trig.got[1].FileInfo = trig.file
          /\ trig.file = NilInfo =>
                /\ trig.got[1].FileInfo.name = TriggeredName
                /\ ~trig.got[1].FileInfo.isDir

\* the steps of a TriggerEvent call leave the roots and the snapshot alone
TriggerFrameStep == trig' # trig => (names' = names /\ files' = files)

\* C28: TriggerEvent(op, info) delivers exactly one event of kind op, with
\* info unchanged when it is supplied and a placeholder named "triggered
\* event" when it is nil, and changes neither the roots nor the snapshot.
C28_TriggerDeliversOne == []TriggerDelivered /\ [][TriggerFrameStep]_vars

\* a triggered event with a supplied FileInfo was received while the
\* watcher was polling its root
C28_Witness ==
    /\ trig.pc = "returned"
    /\ trig.file # NilInfo
    /\ trig.got = <<trig.ev>>
    /\ pc["s1"] \in LoopPcs
    /\ names # EmptyMap

\* C29: a TriggerEvent call blocked because nothing receives from the event
\* channel returns once the watcher is closed.
C29_CloseReleasesTrigger ==
    (trig.pc = "send" /\ evConsumer = "stopped" /\ CloseReturned) ~> (trig.pc = "returned")

(***************************************************************************)
(* WatchedFiles.                                                           *)
(***************************************************************************)
\* the holder of the returned map changes it in this step
HolderStep == view.held /\ ~view.mutated /\ view'.mutated

\* C30: what WatchedFiles returned is a copy: a change the holder makes to it
\* does not change the watched files, and no later Add, Remove, Ignore,
\* Close or commit of a cycle changes what the holder has.
C30_WatchedFilesIsCopy ==
    [][/\ HolderStep => files' = files
       /\ (view.held /\ ~HolderStep) => view'.val = view.val]_vars

(***************************************************************************)
(* The state lock.                                                         *)
(***************************************************************************)
\* C31: p.mu is never held by a goroutine that is sending on p.Event or on
\* p.Error, and the loop never waits for p.mu while holding it.
C31_LockNotHeldAcrossSend ==
    \A s \in Starters : pc[s] \in {"sendError", "sendEvent", "relock"} => mu # s

\* the worker of s compares the listing with p.files in this step
WorkerReadStep(s) == wk'[s] # wk[s] /\ pc'[s] = pc[s] /\ ~cancelled[s] /\ wk[s].pc \in SendPhases \cup {"nextdir"}

\* the loop of s takes an event from its worker and reads p.maxEvents
CapReadStep(s) == pc[s] = "select" /\ pc'[s] = "sendEvent"

\* C32: every read of the retained snapshot by the worker and every read of
\* maxEvents by the loop is made while p.mu is held for that loop.
C32_StateReadUnderLock ==
    [][\A s \in Starters : (WorkerReadStep(s) \/ CapReadStep(s)) => mu = s]_vars

(***************************************************************************)
(* Renames.                                                                *)
(***************************************************************************)
\* the Rename events delivered in the cycle of s whose source is from, and
\* those whose destination is to
RenamesFrom(s, from) ==
    {i \in DOMAIN delivered[s] :
        /\ delivered[s][i].Op = "Rename"
        /\ \E to \in FilePaths : delivered[s][i].Path = RenamePath(from, to)}
RenamesTo(s, to) ==
    {i \in DOMAIN delivered[s] :
        /\ delivered[s][i].Op = "Rename"
        /\ \E from \in FilePaths : delivered[s][i].Path = RenamePath(from, to)}

\* C33: in one cycle a created path is the destination of at most one Rename
\* event and a removed path is the source of at most one Rename event.
C33_OneRenamePerPath ==
    \A s \in Starters : \A q \in FilePaths :
        Cardinality(RenamesFrom(s, q)) <= 1 /\ Cardinality(RenamesTo(s, q)) <= 1

\* a watcher started on the tree /d, /d/a, /d/s, /d/s/a, added recursively,
\* in which files are moved within a directory and from one directory to
\* another, a file changes its mode and the subdirectory is removed
MoveFiles == {Join(d, b) : d \in {WatchDir, SubDir}, b \in {<<"a">>, <<"b">>}}
MoveNext ==
    \/ \E q \in MoveFiles, r \in MoveFiles : Exists(fs, Dir(r)) /\ FsRename(q, r)
    \/ \E q \in MoveFiles : FsChmod(q)
    \/ FsRemoveAll(SubDir)
    \/ DOMAIN names = {} /\ Add(WatchDir, TRUE)
    \/ StartCall("s1", Nanosecond)
    \/ PlainLoop("s1")

MoveSpec == InitWith(TreeFs) /\ [][MoveNext]_vars

\* removed path x and created path y of the cycle of s are in one directory
\* and agree on isDir, size, modification time and mode
Matching(s, x, y) ==
    Dir(x) = Dir(y) /\ SameMeta(InfoOf(fileList[s], y), InfoOf(files, x))

\* every Rename delivered in the cycle of s is of a matching pair
RenamesMatch(s) ==
    \A i \in DOMAIN delivered[s] :
        delivered[s][i].Op = "Rename"
            => \E x \in RemovedPaths(s), y \in AddedPaths(s) :
                  delivered[s][i].Path = RenamePath(x, y) /\ Matching(s, x, y)

\* C34: a Rename is delivered only for a removed and a created path that
\* share their parent directory and agree on isDir, size, modification time
\* and mode; a removed and a created path that match no path of the cycle
\* are reported, at the end of the cycle, by one Remove and one Create.
C34_RenameNeedsMatchingPair ==
    \A s \in Starters :
        /\ (pc[s] \in {"select", "sendEvent", "commit"} /\ NoClose) => RenamesMatch(s)
        /\ CycleEnded(s) =>
              \A x \in RemovedPaths(s), y \in AddedPaths(s) :
                  (/\ \A y2 \in AddedPaths(s) : ~Matching(s, x, y2)
                   /\ \A x2 \in RemovedPaths(s) : ~Matching(s, x2, y))
                      => /\ Cardinality(EventsOf(s, "Remove", x)) = 1
                         /\ Cardinality(EventsOf(s, "Create", y)) = 1

\* removed path x was renamed to created path y and its mode changed: the
\* two are in one directory and agree on isDir, size and modification time,
\* not on mode
RenamedAndChmodded(s, x, y) ==
    LET add == InfoOf(fileList[s], y)
        remove == InfoOf(files, x)
    IN /\ Dir(x) = Dir(y)
       /\ add.modTime = remove.modTime
       /\ add.size = remove.size
       /\ add.isDir = remove.isDir
       /\ add.mode # remove.mode

\* C35: when the destination of a rename has a mode different from that of
\* its source, the cycle delivers a Chmod event whose path is the old path.
C35_ChmodOnRenameUsesOldPath ==
    \A s \in Starters :
        CycleEnded(s) =>
            \A x \in RemovedPaths(s), y \in AddedPaths(s) :
                RenamedAndChmodded(s, x, y) => EventsOf(s, "Chmod", x) # {}

(***************************************************************************)
(* Close during the sleep.                                                 *)
(***************************************************************************)
\* one Start call on a watcher whose files are written to, and one Close
\* call that is made while the loop is in time.Sleep(d)
NapNext ==
    \/ \E p \in FilePaths : FsWrite(p)
    \/ \E c \in AddCalls : Add(c[1], c[2])
    \/ StartCall("s1", Nanosecond)
    \/ PlainLoop("s1")
    \/ CloseLoop("s1")
    \/ \E c \in Closers : pc["s1"] = "sleep" /\ CloseCall(c)

NapSpec == Init /\ [][NapNext]_vars

\* a Close call is waiting to send on p.close
ClosePending == \E c \in AllClosers : closePc[c] = "sendClose"

\* C36: when Close has been called while the loop sleeps between two
\* cycles, the loop leaves the sleep only to shut down: it does not list the
\* roots again.
C36_CloseSeenDuringSleep ==
    [][\A s \in Starters :
          (pc[s] = "sleep" /\ ClosePending) => pc'[s] \in {"sleep", "sendClosed"}]_vars

(***************************************************************************)
(* A directory removed with its contents.                                  *)
(***************************************************************************)
\* directory dir lies under a root that was added recursively
UnderRecursiveRoot(dir) == \E r \in DOMAIN names : names[r] /\ IsUnder(dir, r)

\* C37: when a directory under a recursive root has been removed with its
\* contents, the cycle that finds it gone delivers a Remove event for the
\* directory and for every path of the previous snapshot beneath it.
C37_RemovedTreeReported ==
    \A s \in Starters :
        (CycleEnded(s) /\ UnderRecursiveRoot(SubDir) /\ SubDir \in RemovedPaths(s))
            => \A q \in PathsOf(files) :
                  IsUnder(q, SubDir) => EventsOf(s, "Remove", q) # {}

(***************************************************************************)
(* Add and AddRecursive called on a running watcher.                       *)
(***************************************************************************)
\* Add (recursive = FALSE) or AddRecursive (recursive = TRUE) called after
\* Start has set p.running: neither looks at p.running, both take p.mu
AddRunning(name, recursive) ==
    /\ running
    /\ adds < MaxAdds
    /\ mu = "free"
    /\ names' = Put(names, name, recursive)
    /\ files' = AddFiles(name, recursive, files, fs, ignored, ignoreHidden)
    /\ adds' = adds + 1
    /\ view' = Seen(view, files')
    /\ UNCHANGED <<fsVars, ignored, ignoreHidden, maxEvents, running, mu,
                   pc, callVars, cycleVars, closePc, evConsumer, closedConsumer, scan, apiVars>>

\* a watcher started without roots, to which one root is added while it
\* runs, at any point of the cycle; files are created in the directory
LiveNext ==
    \/ \E p \in FilePaths : FsCreate(p)
    \/ StartCall("s1", Nanosecond)
    \/ PlainLoop("s1")
    \/ \E c \in AddCalls : DOMAIN names = {} /\ AddRunning(c[1], c[2])

LiveSpec == Init /\ [][LiveNext]_vars

\* C38: a root having been added while the watcher runs, no cycle delivers a
\* Create event as long as the filesystem has not changed since: every file
\* there is existed when Add returned.
C38_AddWhileRunningNoCreate ==
    \A s \in Starters :
        (fsOps = 0 /\ names # EmptyMap)
            => /\ pending[s].Op # "Create"
               /\ \A i \in DOMAIN delivered[s] : delivered[s][i].Op # "Create"

(***************************************************************************)
(* Several roots.                                                          *)
(***************************************************************************)
\* C39: p.files as built by Add and AddRecursive, and the listing of every
\* cycle, hold every path that each registered root contributes; adding a
\* root takes away no path of another root.
C39_EveryRootFullyWatched ==
    \A r \in DOMAIN names :
        /\ Contributed(r) \subseteq PathsOf(files)
        /\ \A s \in Starters :
              pc[s] \in {"select", "sendEvent", "commit"}
                  => Contributed(r) \subseteq PathsOf(fileList[s])

(***************************************************************************)
(* Add of a path that does not exist.                                      *)
(***************************************************************************)
\* the roots that this step registers or whose recursive flag it changes
NewRoots == {n \in DOMAIN names' : n \notin DOMAIN names \/ names'[n] # names[n]}

\* C40: a call of Add or AddRecursive that fails because its path does not
\* exist changes nothing: no step of Add or AddRecursive registers a root
\* that is not in the filesystem.
C40_FailedAddChangesNothing ==
    [][adds' = adds + 1 => \A n \in NewRoots : Exists(fs, n)]_vars

====
